---------------------------- MODULE Spec2Model ----------------------------
(***************************************************************************)
(* Model of GameSrc/support.c: the four worker threads of the ping-pong    *)
(* game (signal_listener, keyboard_handler, ball_handler, ai_handler)      *)
(* acting on the shared game_data structure, the state mutex data->mut    *)
(* and the notification pipe data->pipedes.                                *)
(*                                                                         *)
(* Each thread is a program counter over the statements of its handler;    *)
(* one action is one statement or one group of adjacent statements of the  *)
(* same thread, and the threads interleave between actions.  support.h and *)
(* main.c are not part of the sources: the constants of support.h, the     *)
(* initial state set up by main and the controller draining the pipe are   *)
(* modelled from the specification.  The signals that end the process      *)
(* (SIGKILL, SIGTERM, SIGINT) are not delivered.                           *)
(***************************************************************************)
EXTENDS Integers, Sequences, FiniteSets, TLC

(***************************************************************************)
(* Bounds of the model.                                                    *)
(***************************************************************************)
\* largest terminal height (rows) a resize or the initial terminal has
MaxRows == 4
\* largest terminal width (columns)
MaxCols == 4
\* capacity of the notification pipe (a write blocks when it is full)
MaxPipe == 1
\* number of input events the keyboard handler reads in one run
MaxKeys == 1
\* number of input events read in a run of the input and resize threads alone
MaxInputKeys == 2
\* number of SIGWINCH signals delivered in one run
MaxResizes == 1
\* how many columns past a paddle column a ball that has left the field is followed
MaxEscape == 1

(***************************************************************************)
(* Constants of support.h.                                                 *)
(***************************************************************************)
PADDLE_WIDTH == 3
FIELD_TOP == 0
MAX_HITCNT == 1
MAX_LEVEL == 1

TIME_GAP_BALL == 50000

KBD_TAG == "KBD"
AI_TAG == "AI"
BALL_TAG == "BALL"
QUIT_TAG == "QUIT"

\* PADDLE_WIDTH / 2 (C integer division of a positive constant)
HalfPaddle == PADDLE_WIDTH \div 2

\* the terminal sizes a resize can report: any height down to one row, and the
\* two largest widths
TermRows == 1..MaxRows
TermCols == (MaxCols - 1)..MaxCols

\* the rows a mouse event can report: the first and the last row of the screen
PointerRows == {0, MaxRows - 1}

\* winner codes written by ball_handler
HUMAN_WINS == 0
AI_WINS == 1

\* the column of the AI paddle, fixed by main
AI_PADDLE_COL == 0

\* keys getch() can return; "MOUSE" is KEY_MOUSE with a pending mouse event,
\* "OTHER" any other key or ERR
Keys == {"UP", "DOWN", "SPACE", "QUIT", "MOUSE", "OTHER"}
NoKey == [key |-> "NONE", y |-> 0]
KeyEvents == [key : Keys \ {"MOUSE"}, y : {0}] \cup [key : {"MOUSE"}, y : PointerRows]

VARIABLES
    \* game_data fields
    paddle_pos, paddle_pos_old, ai_paddle_pos, ai_paddle_pos_old,
    ball_x, ball_y, ball_dirx, ball_diry,
    paddle_col, bottom_row,
    gameLevel, hitCnt,
    play_flag, exit_flag, termination_flag, haltFlag, winner,
    \* data->mut: "free" or the thread holding it
    mut,
    \* data->pipedes: the tags written and not yet read
    pipe,
    \* position of each thread in its handler
    pcS, pcK, pcB, pcA,
    \* keyboard_handler's local ch (and the mouse event read with it)
    ch,
    \* FALSE once termination_handler has called exit(1)
    running,
    \* the environment: input events read and resize signals delivered so far
    nkeys, nresizes

gameVars == <<paddle_pos, paddle_pos_old, ai_paddle_pos, ai_paddle_pos_old,
              ball_x, ball_y, ball_dirx, ball_diry, paddle_col, bottom_row,
              gameLevel, hitCnt, play_flag, exit_flag, termination_flag,
              haltFlag, winner>>
vars == <<paddle_pos, paddle_pos_old, ai_paddle_pos, ai_paddle_pos_old,
          ball_x, ball_y, ball_dirx, ball_diry, paddle_col, bottom_row,
          gameLevel, hitCnt, play_flag, exit_flag, termination_flag,
          haltFlag, winner, mut, pipe, pcS, pcK, pcB, pcA, ch, running,
          nkeys, nresizes>>

(***************************************************************************)
(* Pure helpers.                                                           *)
(***************************************************************************)
Abs(x) == IF x < 0 THEN -x ELSE x

Max(a, b) == IF a > b THEN a ELSE b

\* C's diff / (diff == 0 ? 1 : abs(diff)): the sign of diff
Sign(diff) == IF diff = 0 THEN 0 ELSE IF diff > 0 THEN 1 ELSE -1

\* write(data->pipedes[1], tag, TAG_SIZE) can proceed
PipeHasRoom == Len(pipe) < MaxPipe

(***************************************************************************)
(* Initial state: the state main hands to the threads at the start of a    *)
(* round on a terminal of MaxRows x MaxCols.                               *)
(***************************************************************************)
Init ==
    /\ bottom_row = MaxRows - 1
    /\ paddle_col = MaxCols - 1
    /\ paddle_pos = (MaxRows - 1) \div 2
    /\ paddle_pos_old = (MaxRows - 1) \div 2
    /\ ai_paddle_pos = (MaxRows - 1) \div 2
    /\ ai_paddle_pos_old = (MaxRows - 1) \div 2
    /\ ball_x = (MaxCols - 1) \div 2
    /\ ball_y = (MaxRows - 1) \div 2
    /\ ball_dirx \in {-1, 1}
    /\ ball_diry = 1
    /\ gameLevel = 0
    /\ hitCnt = 0
    /\ play_flag = 1
    /\ exit_flag = 0
    /\ termination_flag = 0
    /\ haltFlag = 0
    /\ winner \in {HUMAN_WINS, AI_WINS}
    /\ mut = "free"
    /\ pipe = <<>>
    /\ pcS = "s_wait"
    /\ pcK = "k_loop"
    /\ pcB = "b_spin"
    /\ pcA = "a_loop"
    /\ ch = NoKey
    /\ running = TRUE
    /\ nkeys = 0
    /\ nresizes = 0


(***************************************************************************)
(* signal_listener and resize_handler.                                     *)
(***************************************************************************)
paddleVars == <<paddle_pos, paddle_pos_old>>
aiVars == <<ai_paddle_pos, ai_paddle_pos_old>>
ballVars == <<ball_x, ball_y, ball_dirx, ball_diry>>
fieldVars == <<paddle_col, bottom_row>>
levelVars == <<gameLevel, hitCnt>>
flagVars == <<play_flag, exit_flag, termination_flag, haltFlag, winner>>
notS == <<pcK, pcB, pcA, ch, running, nkeys>>
notK == <<pcS, pcB, pcA, running, nresizes>>
notB == <<pcS, pcK, pcA, ch, nkeys, nresizes>>
notA == <<pcS, pcK, pcB, ch, running, nkeys, nresizes>>

\* mutant of ResizeClamp: the clamp without the MAX that keeps the paddle below the top row
ResizeClamp_NoTop(pos, br) == IF pos > br - HalfPaddle THEN br - HalfPaddle ELSE pos

\* the clamp of a paddle centre into a field whose last row is br
ResizeClamp(pos, br) ==
    IF pos > br - HalfPaddle THEN Max(br - HalfPaddle, HalfPaddle) ELSE pos

\* the clamp of the ball's row into a field whose last row is br
ResizeBallRow(y, br) == IF y > br THEN br ELSE y

\* the fallback for a ball whose column is beyond the new width maxx = getmaxx(stdscr)
ResizeBallLost(x, y, maxx) == IF x > maxx THEN maxx \div 2 ELSE y

\* poll/read delivers SIGWINCH; pthread_mutex_lock(&data->mut)
S_Lock ==
    /\ running /\ pcS = "s_wait" /\ nresizes < MaxResizes
    /\ mut = "free"
    /\ mut' = "sig"
    /\ nresizes' = nresizes + 1
    /\ pcS' = "s_size"
    /\ UNCHANGED <<gameVars, pipe, notS>>

\* the new terminal size (ioctl/wresize), then bottom_row and paddle_col
S_Size ==
    /\ running /\ pcS = "s_size"
    /\ \E rows \in TermRows, cols \in TermCols :
          /\ bottom_row' = rows - 1
          /\ paddle_col' = cols - 1
    /\ pcS' = "s_clamp"
    /\ UNCHANGED <<paddleVars, aiVars, ballVars, levelVars, flagVars, mut, pipe,
                   nresizes, notS>>

\* ensure objects are inside the new field (getmaxx(stdscr) is paddle_col + 1),
\* the repaint and pthread_mutex_unlock(&data->mut)
S_Clamp ==
    /\ running /\ pcS = "s_clamp"
    /\ paddle_pos' = ResizeClamp(paddle_pos, bottom_row)
    /\ ai_paddle_pos' = ResizeClamp(ai_paddle_pos, bottom_row)
    /\ ball_y' = ResizeBallLost(ball_x, ResizeBallRow(ball_y, bottom_row), paddle_col + 1)
    /\ mut' = "free"
    /\ pcS' = "s_wait"
    /\ UNCHANGED <<paddle_pos_old, ai_paddle_pos_old, ball_x, ball_dirx, ball_diry,
                   fieldVars, levelVars, flagVars, pipe, nresizes, notS>>

(***************************************************************************)
(* keyboard_handler.                                                       *)
(***************************************************************************)
\* while (!data->termination_flag)
K_Loop ==
    /\ running /\ pcK = "k_loop"
    /\ pcK' = IF termination_flag # 0 THEN "k_done" ELSE "k_lock"
    /\ UNCHANGED <<gameVars, mut, pipe, ch, nkeys, notK>>

\* pthread_mutex_lock(&data->mut)
K_Lock ==
    /\ running /\ pcK = "k_lock" /\ mut = "free"
    /\ mut' = "kbd"
    /\ pcK' = "k_getch"
    /\ UNCHANGED <<gameVars, pipe, ch, nkeys, notK>>

\* mutant of K_Getch: the mutex is kept over the switch and its pipe write
K_Getch_KeepsMutex ==
    /\ running /\ pcK = "k_getch" /\ nkeys < MaxKeys
    /\ \E e \in KeyEvents : ch' = e
    /\ nkeys' = nkeys + 1
    /\ pcK' = "k_spin"
    /\ UNCHANGED <<gameVars, mut, pipe, notK>>

\* ch = getch(), with the mouse event getmouse would return; then the unlock;
\* the player sends at most `limit` events
KeyRead(limit) ==
    /\ running /\ pcK = "k_getch" /\ nkeys < limit
    /\ \E e \in KeyEvents : ch' = e
    /\ nkeys' = nkeys + 1
    /\ mut' = "free"
    /\ pcK' = "k_spin"
    /\ UNCHANGED <<gameVars, pipe, notK>>

K_Getch == KeyRead(MaxKeys)

\* the same read for a player who sends up to MaxInputKeys events
K_GetchInput == KeyRead(MaxInputKeys)

\* while (data->haltFlag != 0);
K_Spin ==
    /\ running /\ pcK = "k_spin" /\ haltFlag = 0
    /\ pcK' = "k_disp"
    /\ UNCHANGED <<gameVars, mut, pipe, ch, nkeys, notK>>

\* the paddle row after KEY_UP
MoveUp(pos) == IF pos > HalfPaddle THEN pos - 1 ELSE pos

\* the paddle row after KEY_DOWN in a field whose last row is br
MoveDown(pos, br) == IF pos < br - HalfPaddle THEN pos + 1 ELSE pos

\* switch (ch): the statements of each case up to its write to the pipe
K_Dispatch ==
    /\ running /\ pcK = "k_disp"
    /\ CASE ch.key = "UP" ->
              /\ paddle_pos_old' = paddle_pos
              /\ paddle_pos' = MoveUp(paddle_pos)
              /\ pcK' = "k_send"
              /\ UNCHANGED <<play_flag, exit_flag>>
         [] ch.key = "DOWN" ->
              /\ paddle_pos_old' = paddle_pos
              /\ paddle_pos' = MoveDown(paddle_pos, bottom_row)
              /\ pcK' = "k_send"
              /\ UNCHANGED <<play_flag, exit_flag>>
         [] ch.key = "SPACE" ->
              /\ play_flag' = 1
              /\ pcK' = "k_loop"
              /\ UNCHANGED <<paddle_pos, paddle_pos_old, exit_flag>>
         [] ch.key = "QUIT" ->
              /\ exit_flag' = 1
              /\ pcK' = "k_quit"
              /\ UNCHANGED <<paddle_pos, paddle_pos_old, play_flag>>
         [] ch.key = "MOUSE" ->
              /\ paddle_pos_old' = paddle_pos
              /\ paddle_pos' = ch.y
              /\ pcK' = "k_send"
              /\ UNCHANGED <<play_flag, exit_flag>>
         [] OTHER ->
              /\ pcK' = "k_loop"
              /\ UNCHANGED <<paddle_pos, paddle_pos_old, play_flag, exit_flag>>
    /\ ch' = NoKey
    /\ UNCHANGED <<aiVars, ballVars, fieldVars, levelVars, termination_flag, haltFlag,
                   winner, mut, pipe, nkeys, notK>>

\* write(data->pipedes[1], KBD_TAG, TAG_SIZE)
K_Send ==
    /\ running /\ pcK = "k_send" /\ PipeHasRoom
    /\ pipe' = Append(pipe, KBD_TAG)
    /\ pcK' = "k_loop"
    /\ UNCHANGED <<gameVars, mut, ch, nkeys, notK>>

\* write(data->pipedes[1], QUIT_TAG, TAG_SIZE)
K_SendQuit ==
    /\ running /\ pcK = "k_quit" /\ PipeHasRoom
    /\ pipe' = Append(pipe, QUIT_TAG)
    /\ pcK' = "k_loop"
    /\ UNCHANGED <<gameVars, mut, ch, nkeys, notK>>

(***************************************************************************)
(* ball_handler.                                                           *)
(***************************************************************************)
\* the ball's row is outside the field
OutOfField(y, br) == y < FIELD_TOP \/ y > br

\* mutant of HitAccepted: the test without the one-step offset of the moving ball
HitAccepted_NoDiagonal(pos, y, diry) == Abs(pos - y) <= HalfPaddle

\* the paddle at row pos returns a ball at row y moving by diry
HitAccepted(pos, y, diry) == Abs(pos - y - (-diry)) <= HalfPaddle

\* the accepted hit clears the level
LevelUpDue(hits) == hits >= MAX_HITCNT

\* mutant of RoundWon: the round is won on reaching MAX_LEVEL
RoundWon_Early(level) == level >= MAX_LEVEL

\* the level reached ends the round
RoundWon(level) == level > MAX_LEVEL

\* mutant of WinnerOnHumanMiss: the human miss recorded as a human win
WinnerOnHumanMiss_Swapped == HUMAN_WINS

\* the winner recorded when the human paddle misses ("player loses, ai wins")
WinnerOnHumanMiss == AI_WINS

\* the winner recorded when the AI paddle misses ("ai loses, player wins")
WinnerOnAiMiss == HUMAN_WINS

\* while (data->haltFlag != 0); then the old coordinates and the advance
B_Advance ==
    /\ running /\ pcB = "b_spin" /\ haltFlag = 0
    /\ ball_x + ball_dirx >= AI_PADDLE_COL - MaxEscape
    /\ ball_x + ball_dirx <= MaxCols - 1 + MaxEscape
    /\ ball_y' = ball_y + ball_diry
    /\ ball_x' = ball_x + ball_dirx
    /\ pcB' = "b_wall"
    /\ UNCHANGED <<paddleVars, aiVars, ball_dirx, ball_diry, fieldVars, levelVars,
                   flagVars, mut, pipe, running, notB>>

\* reflect ball on field top and bottom
B_Wall ==
    /\ running /\ pcB = "b_wall"
    /\ IF OutOfField(ball_y, bottom_row)
          THEN /\ ball_diry' = -ball_diry
               /\ ball_y' = ball_y + 2 * (-ball_diry)
          ELSE UNCHANGED <<ball_diry, ball_y>>
    /\ pcB' = "b_pad"
    /\ UNCHANGED <<paddleVars, aiVars, ball_x, ball_dirx, fieldVars, levelVars,
                   flagVars, mut, pipe, running, notB>>

\* reflect ball on player pad: the acceptance test, then the accepted hit with
\* its hit count and level, or the miss that ends the round
B_Paddle ==
    /\ running /\ pcB = "b_pad"
    /\ IF ball_x # paddle_col
          THEN /\ pcB' = "b_ai"
               /\ UNCHANGED <<ball_x, ball_dirx, gameLevel, hitCnt, play_flag, winner>>
          ELSE IF HitAccepted(paddle_pos, ball_y, ball_diry)
                  THEN /\ ball_dirx' = -ball_dirx
                       /\ ball_x' = ball_x + 2 * (-ball_dirx)
                       /\ gameLevel' = IF LevelUpDue(hitCnt) THEN gameLevel + 1 ELSE gameLevel
                       /\ hitCnt' = IF LevelUpDue(hitCnt) THEN 0 ELSE hitCnt + 1
                       /\ pcB' = IF LevelUpDue(hitCnt) THEN "b_halt" ELSE "b_level"
                       /\ UNCHANGED <<play_flag, winner>>
                  ELSE /\ play_flag' = 0
                       /\ winner' = WinnerOnHumanMiss
                       /\ pcB' = "b_hmissquit"
                       /\ UNCHANGED <<ball_x, ball_dirx, gameLevel, hitCnt>>
    /\ UNCHANGED <<paddleVars, aiVars, ball_y, ball_diry, fieldVars, exit_flag,
                   termination_flag, haltFlag, mut, pipe, running, notB>>

\* print_level; data->haltFlag = 1 (each turn of the do-while)
B_Halt ==
    /\ running /\ pcB = "b_halt"
    /\ haltFlag' = 1
    /\ pcB' = "b_getch"
    /\ UNCHANGED <<paddleVars, aiVars, ballVars, fieldVars, levelVars, play_flag,
                   exit_flag, termination_flag, winner, mut, pipe, running, notB>>

\* mutant of B_Getch: the quit key in the pause ends the round as a won round
\* does (QUIT tag, return) instead of exiting the process
B_Getch_QuitEndsRound ==
    /\ running /\ pcB = "b_getch"
    /\ \E c \in {"SPACE", "QUIT", "OTHER"} :
          pcB' = IF c = "SPACE" THEN "b_resume"
                 ELSE IF c = "QUIT" THEN "b_wonquit" ELSE "b_halt"
    /\ UNCHANGED <<gameVars, mut, pipe, running, notB>>

\* c = getch(): the quit key exits the process, space leaves the loop
B_Getch ==
    /\ running /\ pcB = "b_getch"
    /\ \E c \in {"SPACE", "QUIT", "OTHER"} :
          /\ running' = (c # "QUIT")
          /\ pcB' = IF c = "SPACE" THEN "b_resume"
                    ELSE IF c = "QUIT" THEN "b_getch" ELSE "b_halt"
    /\ UNCHANGED <<gameVars, mut, pipe, notB>>

\* clear(); data->haltFlag = 0
B_Resume ==
    /\ running /\ pcB = "b_resume"
    /\ haltFlag' = 0
    /\ pcB' = "b_level"
    /\ UNCHANGED <<paddleVars, aiVars, ballVars, fieldVars, levelVars, play_flag,
                   exit_flag, termination_flag, winner, mut, pipe, running, notB>>

\* if (gameLevel > MAX_LEVEL): the player wins the round
B_LevelCheck ==
    /\ running /\ pcB = "b_level"
    /\ IF RoundWon(gameLevel)
          THEN /\ play_flag' = 0
               /\ winner' = HUMAN_WINS
               /\ pcB' = "b_wonquit"
          ELSE /\ pcB' = "b_ai"
               /\ UNCHANGED <<play_flag, winner>>
    /\ UNCHANGED <<paddleVars, aiVars, ballVars, fieldVars, levelVars, exit_flag,
                   termination_flag, haltFlag, mut, pipe, running, notB>>

\* mutant of SendQuit: the QUIT write without the return, so that the tick goes on
\* to its BALL write
SendQuit_NoReturn ==
    /\ PipeHasRoom
    /\ pipe' = Append(pipe, QUIT_TAG)
    /\ pcB' = "b_send"
    /\ UNCHANGED <<gameVars, mut, running, notB>>

\* write(pipedes[1], QUIT_TAG, TAG_SIZE); return 0
SendQuit ==
    /\ PipeHasRoom
    /\ pipe' = Append(pipe, QUIT_TAG)
    /\ pcB' = "b_done"
    /\ UNCHANGED <<gameVars, mut, running, notB>>

B_WonQuit == running /\ pcB = "b_wonquit" /\ SendQuit

B_HumanMissQuit == running /\ pcB = "b_hmissquit" /\ SendQuit

\* reflect ball on AI pad: the accepted hit, or the miss that ends the round
B_AiPaddle ==
    /\ running /\ pcB = "b_ai"
    /\ IF ball_x # AI_PADDLE_COL
          THEN /\ pcB' = "b_send"
               /\ UNCHANGED <<ball_x, ball_dirx, play_flag, winner>>
          ELSE IF HitAccepted(ai_paddle_pos, ball_y, ball_diry)
                  THEN /\ ball_dirx' = -ball_dirx
                       /\ ball_x' = ball_x + 2 * (-ball_dirx)
                       /\ pcB' = "b_send"
                       /\ UNCHANGED <<play_flag, winner>>
                  ELSE /\ play_flag' = 0
                       /\ winner' = WinnerOnAiMiss
                       /\ pcB' = "b_amissquit"
                       /\ UNCHANGED <<ball_x, ball_dirx>>
    /\ UNCHANGED <<paddleVars, aiVars, ball_y, ball_diry, fieldVars, levelVars,
                   exit_flag, termination_flag, haltFlag, mut, pipe, running, notB>>

B_AiMissQuit == running /\ pcB = "b_amissquit" /\ SendQuit

\* the argument of the end-of-tick usleep at level `level`
TickGap(level) == TIME_GAP_BALL * (MAX_LEVEL - 1 - level)

\* usleep(a) sleeps longer than usleep(b): the int arguments compared as the
\* 32-bit unsigned useconds_t they are converted to (a negative one wraps to the
\* top of the range)
SleepsLonger(a, b) == IF (a < 0) = (b < 0) THEN a > b ELSE a < 0

\* write(pipedes[1], BALL_TAG, TAG_SIZE); usleep(...)
B_Send ==
    /\ running /\ pcB = "b_send" /\ PipeHasRoom
    /\ pipe' = Append(pipe, BALL_TAG)
    /\ pcB' = "b_spin"
    /\ UNCHANGED <<gameVars, mut, running, notB>>

(***************************************************************************)
(* ai_handler.                                                             *)
(***************************************************************************)
\* mutant of AiStep: the step taken with the sign of the difference reversed
AiStep_Away(by, pos) == pos - Sign(by - pos)

\* one unit toward the ball's row
AiStep(by, pos) == pos + Sign(by - pos)

\* the paddle centre p fits a field whose last row is br
InPaddleBounds(p, br) == p >= HalfPaddle /\ p <= br - HalfPaddle

\* while (!data->termination_flag)
A_Loop ==
    /\ running /\ pcA = "a_loop"
    /\ pcA' = IF termination_flag # 0 THEN "a_done" ELSE "a_spin"
    /\ UNCHANGED <<gameVars, mut, pipe, notA>>

\* while (data->haltFlag != 0);
A_Spin ==
    /\ running /\ pcA = "a_spin" /\ haltFlag = 0
    /\ pcA' = "a_step"
    /\ UNCHANGED <<gameVars, mut, pipe, notA>>

\* diff, new, ai_paddle_pos_old and the bounded move
A_Step ==
    /\ running /\ pcA = "a_step"
    /\ ai_paddle_pos_old' = ai_paddle_pos
    /\ ai_paddle_pos' = IF InPaddleBounds(AiStep(ball_y, ai_paddle_pos), bottom_row)
                           THEN AiStep(ball_y, ai_paddle_pos) ELSE ai_paddle_pos
    /\ pcA' = "a_send"
    /\ UNCHANGED <<paddleVars, ballVars, fieldVars, levelVars, flagVars, mut, pipe, notA>>

\* write(pipedes[1], AI_TAG, TAG_SIZE); usleep(TIME_GAP_AI)
A_Send ==
    /\ running /\ pcA = "a_send" /\ PipeHasRoom
    /\ pipe' = Append(pipe, AI_TAG)
    /\ pcA' = "a_loop"
    /\ UNCHANGED <<gameVars, mut, notA>>

(***************************************************************************)
(* The controller loop (main.c): one blocking read of the pipe per turn;   *)
(* the QUIT tag ends the round and cancels the input and AI loops.         *)
(***************************************************************************)
C_Pop ==
    /\ running /\ pipe # <<>>
    /\ pipe' = Tail(pipe)
    /\ termination_flag' = IF Head(pipe) = QUIT_TAG THEN 1 ELSE termination_flag
    /\ UNCHANGED <<paddleVars, aiVars, ballVars, fieldVars, levelVars, play_flag,
                   exit_flag, haltFlag, winner, mut, pcS, pcK, pcB, pcA, ch,
                   running, nkeys, nresizes>>

Signal == S_Lock \/ S_Size \/ S_Clamp

Keyboard == K_Loop \/ K_Lock \/ K_Getch \/ K_Spin \/ K_Dispatch \/ K_Send
            \/ K_SendQuit

Ball == B_Advance \/ B_Wall \/ B_Paddle \/ B_Halt \/ B_Getch \/ B_Resume
        \/ B_LevelCheck \/ B_WonQuit \/ B_HumanMissQuit \/ B_AiPaddle
        \/ B_AiMissQuit \/ B_Send

Ai == A_Loop \/ A_Spin \/ A_Step \/ A_Send

Next == Signal \/ Keyboard \/ Ball \/ Ai \/ C_Pop

Spec == Init /\ [][Next]_vars

\* the threads on a terminal that is never resized (no SIGWINCH is delivered)
NextThreads == Keyboard \/ Ball \/ Ai \/ C_Pop

\* keyboard_handler and the signal listener with the controller, before the ball
\* and AI threads are next scheduled
KeyboardInput == K_Loop \/ K_Lock \/ K_GetchInput \/ K_Spin \/ K_Dispatch \/ K_Send
                 \/ K_SendQuit

NextInput == Signal \/ KeyboardInput \/ C_Pop

InputSpec == Init /\ [][NextInput]_vars

\* every thread that can take a step is eventually scheduled, and the controller
\* keeps reading the pipe; which key a getch() returns is left to the player
FairSpec ==
    /\ Init /\ [][NextThreads]_vars
    /\ WF_vars(Keyboard) /\ WF_vars(Ball) /\ WF_vars(Ai) /\ WF_vars(C_Pop)

(***************************************************************************)
(* Properties.                                                             *)
(***************************************************************************)
\* the ball worker takes the step that leaves position pc
BallLeaves(pc) == pcB = pc /\ pcB' # pc

\* the positions from which ball_handler writes QUIT_TAG and returns
QuitPcs == {"b_wonquit", "b_hmissquit", "b_amissquit"}

\* C1: whenever no resize is in progress and the terminal is high enough to hold
\* a paddle, both paddle centres lie in [PADDLE_WIDTH/2, bottom_row - PADDLE_WIDTH/2]
\* (the claim, stated for the fields in which that interval is not empty).
C1_PaddlesInBounds ==
    (pcS = "s_wait" /\ bottom_row >= 2 * HalfPaddle)
        => /\ InPaddleBounds(paddle_pos, bottom_row)
           /\ InPaddleBounds(ai_paddle_pos, bottom_row)

\* C2: every step of a worker that changes a field of the shared state is taken
\* while that worker holds the state mutex.
C2_WritesHoldMutex ==
    [][/\ (pcB' # pcB /\ gameVars' # gameVars) => mut = "ball"
       /\ (pcA' # pcA /\ gameVars' # gameVars) => mut = "ai"
       /\ (pcK' # pcK /\ gameVars' # gameVars) => mut = "kbd"
       /\ (pcS' # pcS /\ gameVars' # gameVars) => mut = "sig"]_vars

\* C3: no step of the ball, AI or input worker taken while haltFlag stays set
\* changes ball_x, ball_y or ai_paddle_pos (the claim, without the resize steps).
C3_HaltFreezesWorkers ==
    [][(haltFlag # 0 /\ haltFlag' # 0 /\ pcS' = pcS)
          => UNCHANGED <<ball_x, ball_y, ai_paddle_pos>>]_vars

\* the step of ball_handler that accepts a human-paddle hit
AcceptedHit == BallLeaves("b_pad") /\ pcB' \in {"b_halt", "b_level"}

\* C4: an accepted human-paddle hit levels up exactly when hitCnt was
\* MAX_HITCNT - 1 before it; then gameLevel grows by 1 and hitCnt is 0; any other
\* accepted hit leaves gameLevel alone and adds 1 to hitCnt.
C4_LevelUpOnReachingMax ==
    [][AcceptedHit =>
          IF hitCnt = MAX_HITCNT - 1
             THEN gameLevel' = gameLevel + 1 /\ hitCnt' = 0
             ELSE gameLevel' = gameLevel /\ hitCnt' = hitCnt + 1]_vars

\* C5: a tick that finds a paddle missed clears play_flag and records the one
\* winner of that miss (the AI for a human miss, the human for an AI miss) without
\* writing to the pipe; the worker's next step writes exactly one QUIT tag with
\* that winner still recorded and returns; after it the worker takes no step.
C5_MissEndsRound ==
    [][/\ (BallLeaves("b_pad") /\ ball_x = paddle_col
             /\ Abs(paddle_pos - ball_y + ball_diry) > HalfPaddle)
          => /\ play_flag' = 0 /\ winner' = AI_WINS
             /\ pipe' = pipe /\ pcB' = "b_hmissquit"
       /\ (BallLeaves("b_ai") /\ ball_x = AI_PADDLE_COL
             /\ Abs(ai_paddle_pos - ball_y + ball_diry) > HalfPaddle)
          => /\ play_flag' = 0 /\ winner' = HUMAN_WINS
             /\ pipe' = pipe /\ pcB' = "b_amissquit"
       /\ BallLeaves("b_hmissquit")
          => /\ winner = AI_WINS /\ winner' = AI_WINS
             /\ pipe' = Append(pipe, QUIT_TAG) /\ pcB' = "b_done"
       /\ BallLeaves("b_amissquit")
          => /\ winner = HUMAN_WINS /\ winner' = HUMAN_WINS
             /\ pipe' = Append(pipe, QUIT_TAG) /\ pcB' = "b_done"
       /\ pcB = "b_done" => pcB' = "b_done"]_vars

\* C5 witness: the worker has returned after a human miss.
C5_Witness == pcB = "b_done" /\ winner = AI_WINS /\ gameLevel <= MAX_LEVEL

\* C6: the level check after an accepted hit ends the round for the human exactly
\* when gameLevel exceeds MAX_LEVEL: it clears play_flag, records the human as
\* winner and writes nothing; the next step writes one QUIT tag and returns, so no
\* BALL tag is written in that tick; with gameLevel <= MAX_LEVEL the check changes
\* neither play_flag nor winner and the tick goes on.
C6_WinAboveMaxLevel ==
    [][/\ BallLeaves("b_level")
          => IF gameLevel > MAX_LEVEL
                THEN /\ play_flag' = 0 /\ winner' = HUMAN_WINS
                     /\ pipe' = pipe /\ pcB' = "b_wonquit"
                ELSE /\ play_flag' = play_flag /\ winner' = winner
                     /\ pipe' = pipe /\ pcB' = "b_ai"
       /\ BallLeaves("b_wonquit")
          => /\ gameLevel > MAX_LEVEL /\ winner = HUMAN_WINS
             /\ pipe' = Append(pipe, QUIT_TAG) /\ pcB' = "b_done"]_vars

\* C6 witness: the worker has returned with the level above MAX_LEVEL.
C6_Witness == pcB = "b_done" /\ gameLevel > MAX_LEVEL /\ winner = HUMAN_WINS

\* C7: the wall step turns a row one unit below the field into bottom_row - 1 and
\* a row one unit above it into FIELD_TOP + 1, flipping ball_diry; a row inside the
\* field leaves ball_y and ball_diry unchanged.
C7_ExactReflection ==
    [][BallLeaves("b_wall") =>
          IF ball_y = bottom_row + 1
             THEN ball_diry' = -ball_diry /\ ball_y' = bottom_row - 1
             ELSE IF ball_y = FIELD_TOP - 1
                     THEN ball_diry' = -ball_diry /\ ball_y' = FIELD_TOP + 1
                     ELSE (ball_y >= FIELD_TOP /\ ball_y <= bottom_row)
                             => UNCHANGED <<ball_y, ball_diry>>]_vars

\* C8: with the ball in the paddle column the hit is accepted exactly when
\* |paddle_pos - ball_y + ball_diry| <= PADDLE_WIDTH/2; an accepted hit flips
\* ball_dirx and moves ball_x two columns in the new direction, and takes
\* hitCnt from 0 to 1.
C8_HitAcceptance ==
    [][(BallLeaves("b_pad") /\ ball_x = paddle_col) =>
          /\ (pcB' \in {"b_halt", "b_level"})
                <=> (Abs(paddle_pos - ball_y + ball_diry) <= HalfPaddle)
          /\ (pcB' = "b_hmissquit")
                <=> (Abs(paddle_pos - ball_y + ball_diry) > HalfPaddle)
          /\ (pcB' \in {"b_halt", "b_level"})
                => /\ ball_dirx' = -ball_dirx
                   /\ ball_x' = ball_x + 2 * ball_dirx'
                   /\ (hitCnt = 0 => hitCnt' = 1)]_vars

\* C8 witness: the first hit of a level has been accepted.
C8_Witness == pcB = "b_level" /\ hitCnt = 1 /\ gameLevel = 0 /\ ball_dirx = -1

\* the step of resize_handler that clamps the objects into the new field
ClampStep == pcS = "s_clamp" /\ pcS' # pcS

\* the resize leaves a paddle centre above the new limit at
\* max(bottom_row - PADDLE_WIDTH/2, PADDLE_WIDTH/2) and any other unchanged
ClampedAsMax ==
    /\ paddle_pos' = IF paddle_pos > bottom_row - HalfPaddle
                        THEN Max(bottom_row - HalfPaddle, HalfPaddle) ELSE paddle_pos
    /\ ai_paddle_pos' = IF ai_paddle_pos > bottom_row - HalfPaddle
                           THEN Max(bottom_row - HalfPaddle, HalfPaddle)
                           ELSE ai_paddle_pos

\* C9 as claimed: the clamp as above, and a paddle whose paddle_pos + PADDLE_WIDTH/2
\* is beyond the new bottom_row always ends at bottom_row - PADDLE_WIDTH/2.
C9_ClampToBottom ==
    [][ClampStep =>
          /\ ClampedAsMax
          /\ (bottom_row < paddle_pos + HalfPaddle)
                => paddle_pos' = bottom_row - HalfPaddle]_vars

\* C9 amended: the clamp as above; a paddle whose paddle_pos + PADDLE_WIDTH/2 is
\* beyond the new bottom_row ends at bottom_row - PADDLE_WIDTH/2 when that row is
\* at least PADDLE_WIDTH/2, and at PADDLE_WIDTH/2 in a smaller terminal.
C9_ClampToBottomOrTop ==
    [][ClampStep =>
          /\ ClampedAsMax
          /\ (bottom_row < paddle_pos + HalfPaddle /\ bottom_row - HalfPaddle >= HalfPaddle)
                => paddle_pos' = bottom_row - HalfPaddle
          /\ (bottom_row < paddle_pos + HalfPaddle /\ bottom_row - HalfPaddle < HalfPaddle)
                => paddle_pos' = HalfPaddle]_vars

\* C9 witness: a resize has shrunk the field below a paddle that still fits it.
C9_Witness ==
    /\ pcS = "s_clamp"
    /\ paddle_pos > bottom_row - HalfPaddle
    /\ bottom_row - HalfPaddle >= HalfPaddle

\* C10: haltFlag is raised only by the ball worker's level-up pause, is clear
\* whenever the worker is about to write QUIT or has returned, and stays clear
\* over the write of QUIT.
C10_HaltClearedBeforeReturn ==
    [][/\ (haltFlag = 0 /\ haltFlag' # 0) => (pcB = "b_halt" /\ pcB' = "b_getch")
       /\ (pcB' \in QuitPcs \cup {"b_done"}) => haltFlag' = 0
       /\ (pcB \in QuitPcs /\ pcB' = "b_done")
             => (haltFlag = 0 /\ pipe' = Append(pipe, QUIT_TAG))]_vars

\* C10 witness: the worker has returned after at least one level-up pause.
C10_Witness == pcB = "b_done" /\ gameLevel >= 1 /\ haltFlag = 0

\* C11: a pause step that leaves the key loop on space clears haltFlag and hands
\* the worker back to its tick, the quit key in the pause writes no tag, and while
\* the pause is active (haltFlag set) no space or quit key is taken by
\* keyboard_handler's getch().
C11_PauseKeysReachBall ==
    [][/\ BallLeaves("b_resume") => (haltFlag' = 0 /\ pcB' = "b_level")
       /\ (pcB = "b_getch" /\ ~running') => pipe' = pipe
       /\ haltFlag # 0 => ~(nkeys' # nkeys /\ ch'.key \in {"SPACE", "QUIT"})]_vars

\* C12: once keyboard_handler has read the quit key, it eventually sets exit_flag
\* (or the process has exited), whatever the state of the game.
C12_QuitKeyReachesController ==
    (ch.key = "QUIT") ~> (exit_flag = 1 \/ ~running)

\* C13: at every level at which the worker reaches its end-of-tick sleep, the
\* interval TIME_GAP_BALL * (MAX_LEVEL - 1 - gameLevel) is not negative, and the
\* sleep it asks for is shorter than the sleep of every lower level.
C13_TickGapShrinks ==
    [][BallLeaves("b_send") =>
          /\ TickGap(gameLevel) >= 0
          /\ \A lower \in 0..(gameLevel - 1) :
                /\ TickGap(gameLevel) < TickGap(lower)
                /\ SleepsLonger(TickGap(lower), TickGap(gameLevel))]_vars

\* C14: no step writes a tag to the pipe while the thread taking it holds the
\* mutex (the signal listener, the only thread that works under the mutex, writes
\* none), and no thread waits at a pipe write with the mutex held.
C14_NoSendUnderMutex ==
    [][/\ (pipe' # pipe /\ pcK' # pcK) => (mut # "kbd" /\ mut' # "kbd")
       /\ (pipe' # pipe /\ pcB' # pcB) => (mut # "ball" /\ mut' # "ball")
       /\ (pipe' # pipe /\ pcA' # pcA) => (mut # "ai" /\ mut' # "ai")
       /\ pcS' # pcS => pipe' = pipe
       /\ (pcK \in {"k_send", "k_quit"}) => mut # "kbd"
       /\ (pcB \in QuitPcs \cup {"b_send"}) => mut # "ball"
       /\ pcA = "a_send" => mut # "ai"]_vars

\* C14 witness: keyboard_handler waits to write its tag on a full pipe while the
\* resize holds the mutex.
C14_Witness ==
    /\ pcK \in {"k_send", "k_quit"} /\ Len(pipe) = MaxPipe
    /\ mut = "sig"

\* C15: whenever the ball worker is between two ticks and no resize is in
\* progress, ball_y lies in [FIELD_TOP, bottom_row].
C15_BallRowInField ==
    (pcB = "b_spin" /\ pcS = "s_wait")
        => (ball_y >= FIELD_TOP /\ ball_y <= bottom_row)

\* the step of ai_handler that computes and applies the move of one tick
AiMoves == pcA = "a_step" /\ pcA' # pcA

C17_WorkersStop ==
    /\ (termination_flag = 1) ~> (pcA = "a_done" \/ ~running)
    /\ (termination_flag = 1 /\ pcK = "k_spin") ~> (pcK = "k_done" \/ ~running)

\* the step of keyboard_handler that handles an Up or Down key
ArrowKey == pcK = "k_disp" /\ pcK' # pcK /\ ch.key \in {"UP", "DOWN"}

\* C18: an Up or Down key saves the old centre, moves paddle_pos one row in the
\* key's direction when that row is within
\* [PADDLE_WIDTH/2, bottom_row - PADDLE_WIDTH/2] and not at all otherwise, changes
\* no ball or AI-paddle field and writes nothing; the step after it writes exactly
\* one KBD tag.
C18_ArrowKeyFrame ==
    [][/\ ArrowKey =>
            /\ paddle_pos_old' = paddle_pos
            /\ \E row \in {paddle_pos + (IF ch.key = "UP" THEN -1 ELSE 1)} :
                  paddle_pos' = IF row >= HalfPaddle /\ row <= bottom_row - HalfPaddle
                                   THEN row ELSE paddle_pos
            /\ UNCHANGED <<ballVars, aiVars>>
            /\ pipe' = pipe /\ pcK' = "k_send"
       /\ (pcK = "k_send" /\ pcK' # pcK)
            => (pipe' = Append(pipe, KBD_TAG) /\ pcK' = "k_loop")]_vars

\* C19: a tick that ends with the BALL tag, the round still running, never leaves
\* the ball past a paddle column (the claim, which also excludes the two paddle
\* columns themselves).
C19_BallBetweenPaddles ==
    [][(BallLeaves("b_send") /\ play_flag' = 1)
          => (ball_x' >= AI_PADDLE_COL /\ ball_x' <= paddle_col')]_vars

\* C20: the last step of a tick that goes on writes exactly one BALL tag and
\* starts the next tick; the last step of a tick that ends the round writes exactly
\* one QUIT tag and returns; no other step of the worker writes to the pipe, a new
\* tick starts only after the BALL write, and the worker that has returned takes
\* no step, so its QUIT tag is the last tag it writes.
C20_OneTagPerTick ==
    [][/\ BallLeaves("b_send")
            => (pipe' = Append(pipe, BALL_TAG) /\ pcB' = "b_spin")
       /\ (pcB \in QuitPcs /\ pcB' # pcB)
            => (pipe' = Append(pipe, QUIT_TAG) /\ pcB' = "b_done")
       /\ (pcB' # pcB /\ pcB \notin QuitPcs \cup {"b_send"}) => pipe' = pipe
       /\ (pcB' # pcB /\ pcB' = "b_spin") => pcB = "b_send"
       /\ (pcB' # pcB /\ pcB' = "b_done") => pcB \in QuitPcs
       /\ (pcB' # pcB /\ pcB' \in QuitPcs \cup {"b_send"})
            => pcB \in {"b_pad", "b_level", "b_ai"}
       /\ pcB = "b_done" => pcB' = "b_done"]_vars

\* C20 witness: the worker has returned on an AI miss and its QUIT tag is the
\* pipe's last tag.
C20_Witness ==
    /\ pcB = "b_done" /\ winner = HUMAN_WINS /\ gameLevel <= MAX_LEVEL
    /\ pipe # <<>> /\ pipe[Len(pipe)] = QUIT_TAG

=============================================================================
